---------------------------- MODULE Spec2Model ----------------------------
(***************************************************************************)
(* State-chain storage of json2graph (SKGStore, store_mode/skg_store.py).  *)
(*                                                                         *)
(* The graph database is modelled as the property graph the Cypher         *)
(* statements of SKGStore read and write:                                  *)
(*   entity_nodes  nodes labelled :<type>:entity, one per (id, type) pair  *)
(*                 because MERGE (e:<type>:entity {id}) matches on the     *)
(*                 labels as well as on the id;                            *)
(*   state_nodes   :State nodes, id -> the scalar fields time, entity_ids; *)
(*   hasState      (entity node)-[:hasState]->(state) edges;               *)
(*   nextState     (state)-[:nextState]->(state) edges with their          *)
(*                 r.entity list; every edge is made by MERGE, so there is *)
(*                 at most one per ordered pair of states;                 *)
(*   contain       (state)-[:contain]->(state) edges, likewise;            *)
(*   attribute_nodes  :Attribute nodes, id -> value;                       *)
(*   hasAttribute  (state)-[:hasAttribute]->(attribute) edges with r.type; *)
(*   hasRelation   the bag of (state)-[:hasRelation {type, basis}]->(state)*)
(*                 edges.                                                  *)
(* hung says that a transaction function never returned; last names the    *)
(* operation of the latest step; raised is the exception the latest store  *)
(* call ended with; calls lists the _handle_entity_state_chain invocations *)
(* of the latest transaction; call is the store_knowledge_graph call in    *)
(* progress.                                                               *)
(* One write transaction (execute_write_transaction) is one atomic step.   *)
(***************************************************************************)
EXTENDS Integers, Sequences, FiniteSets, Bags, TLC

VARIABLES entity_nodes, state_nodes, hasState, nextState, contain,
          attribute_nodes, hasAttribute, hasRelation, hung, last,
          raised, calls, call,
          processors, registrations, applied, node_props, node_labels

vars == <<entity_nodes, state_nodes, hasState, nextState, contain,
          attribute_nodes, hasAttribute, hasRelation, hung, last,
          raised, calls, call,
          processors, registrations, applied, node_props, node_labels>>

\* the processor registry, what the last application of the processors did,
\* and the properties and labels that graph operations gave the entity nodes
procVars == <<processors, registrations, applied, node_props, node_labels>>

-----------------------------------------------------------------------------
(* Bounds of the model *)

\* number of distinct state IDs that are ever stored
MaxStates == 4
\* calendar dates are day numbers 1..MaxTime
MaxTime == 3
\* the specification with two entities stores fewer states, over fewer days
JointStates == 3
JointTime == 2
\* the specification that refreshes stored states stores fewer still
RefreshStates == 2
RefreshTime == 1
\* longest 关联实体ID列表 of a state record
MaxMembers == 2
\* one store_knowledge_graph call submits at most BatchLen states, with ids
\* 1..BatchStates and days 1..BatchTime
BatchStates == 2
BatchTime == 2
BatchLen == 2
\* number of store_knowledge_graph calls with several records in one run
MaxCalls == 1
\* datetime.max, as a day number
DatetimeMax == 9999

EntityIds == {"A", "B"}
\* the type a placeholder entity gets (skg_store.py:609) and one real type
UnknownType == "unknown"
EntityTypes == {"place"}

StateIds == 1..MaxStates
\* Python's None for a state id or a date
None == 0

\* A 时间 text: "" (EmptyTime) or "<start>至<end>", written as the pair of its
\* day numbers; the periods submitted do not end before they start.
EmptyTime == <<0, 0>>
TimeExprs(days) ==
    {EmptyTime} \cup {t \in (1..days) \X (1..days) : t[1] <= t[2]}

\* the lists of at most MaxMembers of the entities es, repetitions included
MemberLists(es) == UNION {[1..n -> es] : n \in 1..MaxMembers}

-----------------------------------------------------------------------------
(* The interval model *)

\* a date-shaped text that names no calendar date ("2016-13-01"): the pattern
\* \d{4}-\d{2}-\d{2} matches it and datetime.strptime raises ValueError
ImpossibleDay == -1
ImpossibleTime == <<ImpossibleDay, ImpossibleDay>>

\* _parse_time_range: (None, None) for the empty text and for a text the
\* pattern does not match (a part that is no date is written 0); when the
\* pattern matches, the two dates strptime returns, or raised when strptime
\* raises.
parse_time_range(t) ==
    IF t = EmptyTime THEN [start |-> None, end |-> None, raised |-> FALSE]
    ELSE IF t[1] = 0 \/ t[2] = 0
         THEN [start |-> None, end |-> None, raised |-> FALSE]
    ELSE IF t[1] = ImpossibleDay \/ t[2] = ImpossibleDay
         THEN [start |-> None, end |-> None, raised |-> TRUE]
    ELSE [start |-> t[1], end |-> t[2], raised |-> FALSE]

\* Python truthiness of an Optional[datetime]
Known(d) == d # None

-----------------------------------------------------------------------------
(* Edge lists: r.entity of nextState / contain edges *)

InTags(e, tags) == \E i \in 1..Len(tags) : tags[i] = e

\* [x IN r.entity WHERE x <> $entity_id]
RECURSIVE WithoutTag(_, _)
WithoutTag(tags, e) ==
    IF tags = <<>> THEN <<>>
    ELSE IF Head(tags) = e THEN WithoutTag(Tail(tags), e)
    ELSE <<Head(tags)>> \o WithoutTag(Tail(tags), e)

\* a function without one point of its domain
DropEdge(rel, p) == [q \in (DOMAIN rel) \ {p} |-> rel[q]]

\* the statement with its two MATCH clauses exchanged: the edge runs s2 -> s1
MergeAppendTag_reversed(rel, a, b, e) ==
    IF <<b, a>> \in DOMAIN rel
    THEN [rel EXCEPT ![<<b, a>>] = Append(@, e)]
    ELSE rel @@ (<<b, a>> :> <<e>>)

\* MERGE (s1)-[r]->(s2) SET r.entity = CASE WHEN r.entity IS NULL
\*   THEN [$entity_id] ELSE r.entity + $entity_id END
MergeAppendTag(rel, a, b, e) ==
    IF <<a, b>> \in DOMAIN rel
    THEN [rel EXCEPT ![<<a, b>>] = Append(@, e)]
    ELSE rel @@ (<<a, b>> :> <<e>>)

\* MERGE (s1)-[r]->(s2) SET r.entity = [$entity_id]
MergeSetTag(rel, a, b, e) ==
    IF <<a, b>> \in DOMAIN rel
    THEN [rel EXCEPT ![<<a, b>>] = <<e>>]
    ELSE rel @@ (<<a, b>> :> <<e>>)

\* the statement without its last line: the edge stays when its list is empty
RemoveTag_keeps_edge(rel, a, b, e) ==
    IF <<a, b>> \notin DOMAIN rel THEN rel
    ELSE [rel EXCEPT ![<<a, b>>] = WithoutTag(@, e)]

\* MATCH (s1)-[r]->(s2) SET r.entity = [x IN r.entity WHERE x <> $entity_id]
\* WITH r WHERE SIZE(r.entity) = 0 DELETE r
RemoveTag(rel, a, b, e) ==
    IF <<a, b>> \notin DOMAIN rel THEN rel
    ELSE IF WithoutTag(rel[<<a, b>>], e) = <<>> THEN DropEdge(rel, <<a, b>>)
    ELSE [rel EXCEPT ![<<a, b>>] = WithoutTag(@, e)]

\* targets of the edges of rel that leave s and are tagged e
TaggedOut(rel, s, e) ==
    {y \in StateIds : <<s, y>> \in DOMAIN rel /\ InTags(e, rel[<<s, y>>])}

-----------------------------------------------------------------------------
(* The graph inside one transaction: [ent, st, hs, nx, ct, at, ha, hr], the *)
(* values of entity_nodes, state_nodes, hasState, nextState, contain,      *)
(* attribute_nodes, hasAttribute and hasRelation.  An outcome [g, ok] of a *)
(* transaction function is the graph it leaves and whether it returned     *)
(* (ok = FALSE: it raised when err = TRUE, else its loop never ends).      *)
(* Result.single() on several rows yields one of them, so the operations   *)
(* return sets of outcomes.  The field calls of a graph is no part of the  *)
(* database: it lists the pairs (entity_id, state_id) that                 *)
(* _handle_entity_state_chain was invoked with since the transaction began.*)

Graph == [ent |-> entity_nodes, st |-> state_nodes, hs |-> hasState,
          nx |-> nextState, ct |-> contain, at |-> attribute_nodes,
          ha |-> hasAttribute, hr |-> hasRelation, calls |-> <<>>]

Returns(g) == {[g |-> g, ok |-> TRUE, err |-> FALSE]}
NeverReturns(g) == {[g |-> g, ok |-> FALSE, err |-> FALSE]}
Raises(g) == {[g |-> g, ok |-> FALSE, err |-> TRUE]}

\* MATCH (e) WHERE e.id = $entity_id
NodesOf(g, e) == {n \in g.ent : n[1] = e}

\* MATCH (e)-[:hasState]->(s:State) WHERE e.id = $entity_id
HeadsOf(g, e) == {h[2] : h \in {x \in g.hs : x[1][1] = e}}

\* _create_base_entity: MERGE (e:<type>:entity {id: $entity_id})
create_base_entity(g, e, type) == [g EXCEPT !.ent = @ \cup {<<e, type>>}]

\* a redirect that leaves the hasState edges where they are
RedirectHasState_keeps_old(g, e, cur, n) == g

\* DELETE the hasState edge(s) of e into cur, then
\* MATCH (e) WHERE e.id = $entity_id MATCH (s) MERGE (e)-[r:hasState]->(s)
RedirectHasState(g, e, cur, n) ==
    [g EXCEPT !.hs = (@ \ {<<nd, cur>> : nd \in NodesOf(g, e)})
                     \cup {<<nd, n>> : nd \in NodesOf(g, e)}]

\* the ends of the paths (first)-[:nextState*]->(last) whose edges are all
\* tagged e, with their lengths; a Cypher path repeats no relationship
RECURSIVE NextPaths(_, _, _, _)
NextPaths(g, e, node, used) ==
    {<<node, Cardinality(used)>>} \cup
    UNION {NextPaths(g, e, y, used \cup {<<node, y>>}) :
           y \in {z \in TaggedOut(g.nx, node, e) : <<node, z>> \notin used}}

\* a reader that returns the first state whatever follows it
get_entity_latest_state_first(g, e) == HeadsOf(g, e)

\* _get_entity_latest_state: OPTIONAL MATCH gives a first state without such a
\* path one row with a null path, ORDER BY pathLength DESC puts null rows
\* first, LIMIT 1 keeps one row: a first state without a tagged nextState edge
\* if there is one, else the end of a longest path.  The set of the state ids
\* the query may return; {} when e has no hasState edge.
get_entity_latest_state(g, e) ==
    LET bare == {f \in HeadsOf(g, e) : TaggedOut(g.nx, f, e) = {}}
        ends == UNION {NextPaths(g, e, f, {}) : f \in HeadsOf(g, e)}
    IN IF bare # {} THEN bare
       ELSE {p[1] : p \in {q \in ends : \A o \in ends : o[2] <= q[2]}}

\* the inner while loop of case 3 (skg_store.py:876-942): p stays the state
\* the new state was spliced above, c moves along nextState, and the interval
\* tested is the one of c's successor
RECURSIVE ForwardWalk(_, _, _, _, _, _, _)
ForwardWalk(g, e, n, new, p, c, fuel) ==
    IF c = None THEN Returns(g)
    ELSE IF fuel = 0 THEN NeverReturns(g)
    ELSE LET outs == TaggedOut(g.nx, c, e)
             rows == IF outs = {} THEN {None} ELSE outs
         IN UNION {
              LET t == IF y = None THEN parse_time_range(EmptyTime)
                       ELSE parse_time_range(g.st[y].time)
              IN IF /\ Known(t.start) /\ Known(t.end)
                    /\ Known(new.start) /\ Known(new.end)
                    /\ new.start <= t.start /\ new.end >= t.end
                 THEN ForwardWalk(g, e, n, new, p, y, fuel - 1)
                 ELSE Returns([g EXCEPT !.nx =
                        MergeAppendTag(RemoveTag(@, p, c, e), n, c, e)])
              : y \in rows}

\* one pass of the while loop of _insert_state_in_chain (skg_store.py:688-1041)
\* at current_state_id = cur with prev_state_id = prev, for the row
\* (next_id, child_id) that current_state_query's single() returned
RECURSIVE Walk(_, _, _, _, _, _, _, _)
WalkRow(g, e, n, new, first, cur, prev, next_id, child_id, fuel) ==
    LET c == parse_time_range(g.st[cur].time)
    IN IF /\ Known(c.start) /\ Known(c.end) /\ Known(new.start) /\ Known(new.end)
          /\ c.start <= new.start /\ c.end >= new.end
       THEN \* case 1: cur contains the new state
            IF child_id = None
            THEN Returns([g EXCEPT !.ct = MergeAppendTag(@, cur, n, e)])
            ELSE Walk(g, e, n, new, first, child_id, cur, fuel - 1)
       ELSE IF /\ Known(c.start) /\ Known(c.end) /\ Known(new.start)
               /\ c.start < new.start
       THEN \* case 2: the new state starts after cur
            IF next_id = None
            THEN Returns([g EXCEPT !.nx = MergeAppendTag(@, cur, n, e)])
            ELSE Walk(g, e, n, new, first, next_id, cur, fuel - 1)
       ELSE IF /\ Known(c.start) /\ Known(c.end) /\ Known(new.start) /\ Known(new.end)
               /\ new.start <= c.start /\ new.end >= c.end
       THEN \* case 3: the new state contains cur
            LET g1 == IF cur = first
                      THEN RedirectHasState(g, e, cur, n)
                      ELSE [g EXCEPT !.ct =
                              MergeSetTag(RemoveTag(@, prev, cur, e), prev, n, e)]
                g2 == [g1 EXCEPT !.ct = MergeAppendTag(@, n, cur, e)]
            IN ForwardWalk(g2, e, n, new, cur, next_id, MaxStates + 1)
       ELSE IF /\ Known(c.start) /\ Known(new.start) /\ Known(new.end)
               /\ new.start < c.start
       THEN \* case 4: the new state starts before cur
            LET g1 == IF cur = first
                      THEN RedirectHasState(g, e, cur, n)
                      ELSE [g EXCEPT !.nx =
                              MergeAppendTag(RemoveTag(@, prev, cur, e), prev, n, e)]
            IN Returns([g1 EXCEPT !.nx = MergeAppendTag(@, n, cur, e)])
       ELSE \* no branch taken: cur and inserted are unchanged, the loop repeats
            NeverReturns(g)

\* the while loop; fuel counts the passes left before a cursor must have been
\* met twice (the graph does not change while the loop moves on)
Walk(g, e, n, new, first, cur, prev, fuel) ==
    IF fuel = 0 THEN NeverReturns(g)
    ELSE LET nexts == TaggedOut(g.nx, cur, e)
             childs == TaggedOut(g.ct, cur, e)
         IN UNION {WalkRow(g, e, n, new, first, cur, prev, nx, ch, fuel) :
                   nx \in (IF nexts = {} THEN {None} ELSE nexts),
                   ch \in (IF childs = {} THEN {None} ELSE childs)}

\* _insert_state_in_chain(tx, entity_id, state_id, time_info, state_chain)
insert_state_in_chain(g, e, n) ==
    LET new == parse_time_range(g.st[n].time)
    IN IF ~Known(new.start)
       THEN IF get_entity_latest_state(g, e) = {} THEN Returns(g)
            ELSE UNION {Returns([g EXCEPT !.nx = MergeAppendTag(@, l, n, e)]) :
                        l \in get_entity_latest_state(g, e)}
       ELSE IF HeadsOf(g, e) = {} THEN Returns(g)
            ELSE UNION {Walk(g, e, n, new, f, f, None, MaxStates + 1) :
                        f \in HeadsOf(g, e)}

\* the hasState statement run for every state, not only for the first one
handle_entity_state_chain_always_head(g, e, n) ==
    LET g0 == [g EXCEPT !.calls = Append(@, <<e, n>>)]
        g1 == IF NodesOf(g0, e) = {} THEN create_base_entity(g0, e, UnknownType)
              ELSE g0
        g2 == [g1 EXCEPT !.hs = @ \cup {<<nd, n>> : nd \in NodesOf(g1, e)}]
    IN IF HeadsOf(g1, e) = {} THEN Returns(g2)
       ELSE insert_state_in_chain(g2, e, n)

\* _handle_entity_state_chain with _get_entity_state_chain: the chain read is
\* empty when the entity had to be created or has no hasState edge
handle_entity_state_chain(g, e, n) ==
    LET g0 == [g EXCEPT !.calls = Append(@, <<e, n>>)]
        g1 == IF NodesOf(g0, e) = {} THEN create_base_entity(g0, e, UnknownType)
              ELSE g0
    IN IF HeadsOf(g1, e) = {}
       THEN Returns([g1 EXCEPT !.hs = @ \cup {<<nd, n>> : nd \in NodesOf(g1, e)}])
       ELSE insert_state_in_chain(g1, e, n)

\* MERGE (s:State {id: $state_id}) SET s.time = ..., s.entity_ids = ...
upsert_state(g, r) ==
    LET node == [time |-> r.time, entity_ids |-> r.members]
    IN [g EXCEPT !.st = IF r.id \in DOMAIN @ THEN [@ EXCEPT ![r.id] = node]
                        ELSE @ @@ (r.id :> node)]

\* for entity_id in entity_ids: self._handle_entity_state_chain(...)
RECURSIVE ForEachMember(_, _, _)
ForEachMember(outs, members, n) ==
    IF members = <<>> THEN outs
    ELSE ForEachMember(
           UNION {IF o.ok THEN handle_entity_state_chain(o.g, Head(members), n)
                  ELSE {o} : o \in outs},
           Tail(members), n)

\* attr_id = f"{state_id}-{attr_value}" (the ids and values of the model hold
\* no "-", so the text is the pair)
AttrId(sid, value) == <<sid, value>>

\* for attr_key, attr_value in state_desc.items():
\*   MERGE (a:Attribute {id: $attr_id}) SET a.value = $attr_value
\*   MERGE (s)-[r:hasAttribute]->(a) SET r.type = $attr_key
RECURSIVE attach_attributes(_, _, _)
attach_attributes(g, sid, desc) ==
    IF desc = <<>> THEN g
    ELSE LET key == Head(desc)[1]
             value == Head(desc)[2]
             a == AttrId(sid, value)
             g1 == [g EXCEPT
                      !.at = IF a \in DOMAIN @ THEN [@ EXCEPT ![a] = value]
                             ELSE @ @@ (a :> value),
                      !.ha = IF <<sid, a>> \in DOMAIN @
                             THEN [@ EXCEPT ![<<sid, a>>] = key]
                             ELSE @ @@ (<<sid, a>> :> key)]
         IN attach_attributes(g1, sid, Tail(desc))

\* _create_state_entity without the check "if not existing_state": the member
\* entities' chains are processed on every store of the state
create_state_entity_always_chains(g, r) ==
    IF parse_time_range(r.time).raised THEN Raises(g)
    ELSE {IF o.ok THEN [o EXCEPT !.g = attach_attributes(@, r.id, r.desc)] ELSE o :
          o \in ForEachMember(Returns(upsert_state(g, r)), r.members, r.id)}

\* _create_state_entity(tx, state_data): r = [id, time, members, desc]; the
\* time text is parsed before the first statement is run (skg_store.py:500)
create_state_entity(g, r) ==
    LET existing_state == r.id \in DOMAIN g.st
        g1 == upsert_state(g, r)
        chained == IF ~existing_state
                   THEN ForEachMember(Returns(g1), r.members, r.id)
                   ELSE Returns(g1)
    IN IF parse_time_range(r.time).raised THEN Raises(g)
       ELSE {IF o.ok THEN [o EXCEPT !.g = attach_attributes(@, r.id, r.desc)]
             ELSE o : o \in chained}

\* a statement that MERGEs the two states instead of MATCHing them: a state
\* that is not stored is created
create_state_relation_merging_states(g, rel) ==
    LET blank == [time |-> EmptyTime, entity_ids |-> <<>>]
        missing == {rel.subject, rel.object} \ DOMAIN g.st
        st2 == [i \in (DOMAIN g.st) \cup missing |->
                   IF i \in DOMAIN g.st THEN g.st[i] ELSE blank]
    IN IF BagIn(rel, g.hr) THEN [g EXCEPT !.st = st2]
       ELSE [g EXCEPT !.st = st2, !.hr = @ (+) SetToBag({rel})]

\* _create_state_relation(tx, relation_data): rel = [subject, type, object,
\* basis]; MATCH both states, then MERGE the edge with these properties
create_state_relation(g, rel) ==
    IF rel.subject \in DOMAIN g.st /\ rel.object \in DOMAIN g.st /\ ~BagIn(rel, g.hr)
    THEN [g EXCEPT !.hr = @ (+) SetToBag({rel})]
    ELSE g

-----------------------------------------------------------------------------
(* Processors.  SKGStore.processors is a dict from a processor's name to    *)
(* the processor; a dict keeps the order in which its keys were inserted.   *)
(* The registry is the list of its entries [name, stamp, since]: stamp      *)
(* numbers the add_processor call that registered this processor, since the *)
(* call that inserted its name (no part of the program's state).            *)

\* number of add_processor calls
MaxRegistrations == 4

BASE_ENTITY == "base_entity"
STATE_ENTITY == "state_entity"

\* dict: {} , d.get(k, default), d.update(more)
EmptyDict == [k \in {} |-> k]
Get(d, k, default) == IF k \in DOMAIN d THEN d[k] ELSE default
Update(d, more) ==
    [k \in (DOMAIN d) \cup (DOMAIN more) |->
        IF k \in DOMAIN more THEN more[k] ELSE d[k]]

\* str(n), and the text of True
Str(n) == <<"0", "1", "2", "3", "4">>[n + 1]
True == <<"True">>

\* GraphOperation(operation_type, **params)
GraphOperation(operation_type, params) ==
    [operation_type |-> operation_type, params |-> params]

\* ProcessorResult.add_property / add_properties / add_label / add_labels: the
\* operation each appends to graph_operations
add_property(key, value) ==
    GraphOperation("ADD_PROPERTY", [key |-> key, value |-> value])
add_properties(properties) ==
    GraphOperation("ADD_PROPERTY", [properties |-> properties])
add_label(label) == GraphOperation("ADD_LABEL", [label |-> label])
add_labels(labels) == GraphOperation("ADD_LABEL", [labels |-> labels])

\* the processors: the two of test_final_design.py, the spatial relationship
\* processor, a processor that labels nodes, and one for state records only
ProcessorNames ==
    {"final_processor_1", "final_processor_2", "spatial_relationship_processor",
     "label_processor", "state_processor"}

\* get_supported_entity_types()
get_supported_entity_types(name) ==
    CASE name \in {"final_processor_1", "final_processor_2"} -> {BASE_ENTITY}
      [] name = "state_processor" -> {STATE_ENTITY}
      [] OTHER -> {BASE_ENTITY, STATE_ENTITY}

\* process(entity_type, data, context) of the processor called name, for a
\* base entity record data = [id, type, name]: the ProcessorResult
\* [graph_operations, processor_context]
process(name, entity_type, data, context) ==
    CASE name = "final_processor_1" ->
           [graph_operations |-> <<add_property("processor_1_processed", True)>>,
            processor_context |->
               [entity_name |-> data.name, entity_type |-> data.type,
                step1_completed |-> TRUE,
                sequence |-> Get(context, "sequence", 0) + 1]]
      [] name = "final_processor_2" ->
           IF Get(context, "step1_completed", FALSE)
           THEN LET entity_name == Get(context, "entity_name", "unknown")
                    sequence == Get(context, "sequence", 0)
                IN [graph_operations |->
                       <<add_property("processor_2_used_context", True),
                         add_property("combined_info",
                                      <<entity_name, "_step", Str(sequence)>>)>>,
                    processor_context |->
                       [step2_completed |-> TRUE,
                        final_combined |-> <<entity_name, "_", Str(sequence)>>]]
           ELSE [graph_operations |->
                    <<add_property("processor_2_no_context", True)>>,
                 processor_context |-> EmptyDict]
      [] name = "spatial_relationship_processor" ->
           [graph_operations |->
               IF entity_type = BASE_ENTITY /\ data.type = "river"
               THEN <<add_properties([water_feature_type |-> <<"river">>])>>
               ELSE <<>>,
            processor_context |-> EmptyDict]
      [] name = "label_processor" ->
           [graph_operations |-> <<add_label("flagged"), add_labels(<<"reviewed">>)>>,
            processor_context |-> EmptyDict]
      [] OTHER ->
           [graph_operations |-> <<add_labels(<<"state">>)>>,
            processor_context |-> EmptyDict]

\* a registration that takes the name out of the registry and puts it at the
\* end
add_processor_moving_to_end(procs, name, stamp) ==
    LET old == SelectSeq(procs, LAMBDA p : p.name = name)
        rest == SelectSeq(procs, LAMBDA p : p.name # name)
    IN Append(rest, [name |-> name, stamp |-> stamp,
                     since |-> IF old = <<>> THEN stamp ELSE old[1].since])

\* add_processor(processor): self.processors[processor_name] = processor; a
\* name that is a key already keeps its place in the dict
add_processor(procs, name, stamp) ==
    IF \E i \in DOMAIN procs : procs[i].name = name
    THEN [i \in DOMAIN procs |->
            IF procs[i].name = name
            THEN [name |-> name, stamp |-> stamp, since |-> procs[i].since]
            ELSE procs[i]]
    ELSE Append(procs, [name |-> name, stamp |-> stamp, since |-> stamp])

\* remove_processor(processor_name): del self.processors[processor_name]
remove_processor(procs, name) == SelectSeq(procs, LAMBDA p : p.name # name)

\* the loop of _apply_processors over self.processors.values(): acc is
\* [ctx, ops, ran], the shared context, the operations collected, and for each
\* processor called the registry entry, the context it received and its result
RECURSIVE apply_processors_from(_, _, _, _)
apply_processors_from(procs, entity_type, data, acc) ==
    IF procs = <<>> THEN acc
    ELSE LET p == Head(procs)
             result == process(p.name, entity_type, data, acc.ctx)
         IN IF entity_type \in get_supported_entity_types(p.name)
            THEN apply_processors_from(Tail(procs), entity_type, data,
                   [ctx |-> IF DOMAIN result.processor_context # {}
                            THEN Update(acc.ctx, result.processor_context)
                            ELSE acc.ctx,
                    ops |-> acc.ops \o result.graph_operations,
                    ran |-> Append(acc.ran, [proc |-> p, received |-> acc.ctx,
                                             result |-> result])])
            ELSE apply_processors_from(Tail(procs), entity_type, data, acc)

\* _apply_processors(entity_type, data, context)
apply_processors(procs, entity_type, data, context) ==
    apply_processors_from(procs, entity_type, data,
                          [ctx |-> context, ops |-> <<>>, ran |-> <<>>])

\* the set of the elements of a list
Elements(seq) == {seq[i] : i \in DOMAIN seq}

\* _execute_graph_operations_with_node(tx, node, operations) for operations of
\* the types ADD_PROPERTY and ADD_LABEL: node is [props, labels] of the nodes
\* MATCH (n) WHERE n.id = $node_id finds
RECURSIVE execute_graph_operations_with_node(_, _)
execute_graph_operations_with_node(node, operations) ==
    IF operations = <<>> THEN node
    ELSE LET operation == Head(operations)
             properties == Get(operation.params, "properties", EmptyDict)
             labels == Get(operation.params, "labels", <<>>)
             done ==
               IF operation.operation_type = "ADD_PROPERTY"
               THEN IF DOMAIN properties # {}
                    THEN [node EXCEPT !.props = Update(@, properties)]
                    ELSE node
               ELSE IF operation.operation_type = "ADD_LABEL"
               THEN IF labels # <<>>
                    THEN [node EXCEPT !.labels = @ \cup Elements(labels)]
                    ELSE node
               ELSE node
         IN execute_graph_operations_with_node(done, Tail(operations))

\* no processor was called by the last _apply_processors
NoApplication == [data |-> <<>>, context |-> <<>>, ran |-> <<>>, ops |-> <<>>]

\* what _apply_processors and the execution of its operations leave for the
\* base entity record data with the node entity_node
ProcessEntity(data, entity_node) ==
    LET context == [entity_node |-> entity_node, entity_type |-> BASE_ENTITY]
        a == apply_processors(processors, BASE_ENTITY, data, context)
        node == execute_graph_operations_with_node(
                   [props |-> node_props[data.id], labels |-> node_labels[data.id]],
                   a.ops)
    IN /\ applied' = IF a.ran = <<>> THEN NoApplication
                      ELSE [data |-> data, context |-> context,
                            ran |-> a.ran, ops |-> a.ops]
       /\ node_props' = IF a.ops # <<>>
                         THEN [node_props EXCEPT ![data.id] = node.props]
                         ELSE node_props
       /\ node_labels' = IF a.ops # <<>>
                          THEN [node_labels EXCEPT ![data.id] = node.labels]
                          ELSE node_labels
       /\ UNCHANGED <<processors, registrations>>

-----------------------------------------------------------------------------
(* The store operations *)

\* State records a caller may submit: a stored id, or the next fresh id (state
\* ids are opaque, so the fresh one is always the smallest unused).
StateRecords(states, days, lists, descs) ==
    [id : {i \in 1..states : i <= Cardinality(DOMAIN state_nodes) + 1},
     time : TimeExprs(days), members : lists, desc : descs]

\* no 状态描述
NoDesc == {<<>>}

\* a list of the elements of the set S
RECURSIVE SeqOf(_)
SeqOf(S) == IF S = {} THEN <<>>
            ELSE LET x == CHOOSE y \in S : TRUE IN <<x>> \o SeqOf(S \ {x})

\* the record a stored state is stored with again when a store call is
\* repeated: its fields as they are stored
StoredRecord(i) ==
    [id |-> i, time |-> state_nodes[i].time, members |-> state_nodes[i].entity_ids,
     desc |-> SeqOf({<<hasAttribute[p], attribute_nodes[p[2]]>> :
                     p \in {q \in DOMAIN hasAttribute : q[1] = i}})]

\* how a store call ended: without an exception, with the ValueError of
\* datetime.strptime, or with the error of a failed database transaction
NoError == "none"
ValueError == "ValueError"
TransactionError == "TransactionError"

\* no store_knowledge_graph call is in progress
Idle == [pc |-> "idle", n |-> 0, data |-> <<>>, todo |-> <<>>, log |-> <<>>]

Init ==
    /\ entity_nodes = {}
    /\ state_nodes = <<>>
    /\ hasState = {}
    /\ nextState = <<>>
    /\ contain = <<>>
    /\ attribute_nodes = <<>>
    /\ hasAttribute = <<>>
    /\ hasRelation = EmptyBag
    /\ hung = FALSE
    /\ last = "init"
    /\ raised = NoError
    /\ calls = <<>>
    /\ call = Idle
    /\ processors = <<>>
    /\ registrations = 0
    /\ applied = NoApplication
    /\ node_props = [e \in EntityIds |-> EmptyDict]
    /\ node_labels = [e \in EntityIds |-> {}]

\* store_base_entities([{唯一ID: e, 类型: type}]): one _create_base_entity
\* transaction, then the processors and the transaction of their operations
store_base_entities(e, type) ==
    /\ ~hung
    /\ entity_nodes' = create_base_entity(Graph, e, type).ent
    /\ ProcessEntity([id |-> e, type |-> type, name |-> e], <<e, type>>)
    /\ last' = "entity"
    /\ UNCHANGED <<state_nodes, hasState, nextState, contain,
                   attribute_nodes, hasAttribute, hasRelation, hung,
                   raised, calls, call>>

\* the database holds the graph g
Written(g) ==
    /\ entity_nodes' = g.ent
    /\ state_nodes' = g.st
    /\ hasState' = g.hs
    /\ nextState' = g.nx
    /\ contain' = g.ct
    /\ attribute_nodes' = g.at
    /\ hasAttribute' = g.ha
    /\ hasRelation' = g.hr

\* a session that commits every statement as it is run: what fn wrote before
\* it raised stays
RolledBack_nothing(before, written) == written

\* session.execute_write(fn) when fn raised after it had written the graph
\* written to a database that held the graph before: the driver rolls the
\* transaction back and raises the exception again
RolledBack(before, written) == before

\* the transaction of store_state_entities([r]): it commits the graph that
\* _create_state_entity leaves, or rolls back and raises, or never returns
Commit(o, op) ==
    /\ last' = op
    /\ UNCHANGED procVars
    /\ calls' = o.g.calls
    /\ IF o.ok
       THEN Written(o.g) /\ hung' = FALSE /\ raised' = NoError
       ELSE IF o.err
       THEN Written(RolledBack(Graph, o.g)) /\ hung' = FALSE /\ raised' = ValueError
       ELSE Written(Graph) /\ hung' = TRUE /\ raised' = NoError

\* store_state_entities([r]) for a state id that is not stored yet
StoreNewState(r) ==
    /\ ~hung
    /\ r.id \notin DOMAIN state_nodes
    /\ \E o \in create_state_entity(Graph, r) : Commit(o, "new")
    /\ UNCHANGED call

\* store_state_entities([r]) for a state id that is already stored; op is
\* "restore", or "rerun" when the record is the one the state is stored with
StoreExistingState(r, op) ==
    /\ ~hung
    /\ r.id \in DOMAIN state_nodes
    /\ \E o \in create_state_entity(Graph, r) : Commit(o, op)
    /\ UNCHANGED call

\* store_state_relations([rel]): one _create_state_relation transaction
store_state_relations(rel) ==
    /\ ~hung
    /\ Written(create_state_relation(Graph, rel))
    /\ last' = "relation"
    /\ UNCHANGED <<hung, raised, calls, call>>
    /\ UNCHANGED procVars

\* Two entities and joint states; a stored state is stored again as it is.
Next ==
    \/ \E e \in EntityIds, type \in EntityTypes : store_base_entities(e, type)
    \/ \E r \in StateRecords(JointStates, JointTime, MemberLists(EntityIds), NoDesc) :
          StoreNewState(r)
    \/ \E i \in DOMAIN state_nodes : StoreExistingState(StoredRecord(i), "rerun")

Spec == Init /\ [][Next]_vars

\* One entity, more states and days; the entity is stored with either of two
\* types.
TwoTypes == {"place", "river"}
NextOne ==
    \/ \E type \in TwoTypes : store_base_entities("A", type)
    \/ \E r \in StateRecords(MaxStates, MaxTime, {<<"A">>}, NoDesc) : StoreNewState(r)
    \/ \E i \in DOMAIN state_nodes : StoreExistingState(StoredRecord(i), "rerun")

SpecOne == Init /\ [][NextOne]_vars

\* Stored states are stored again with another time, member list or
\* description, and relations between them are stored and stored again.
RefreshLists == {<<"A">>, <<"A", "B">>}
RefreshDescs == {<<>>, <<<<"k1", "v1">>>>, <<<<"k2", "v1">>>>,
                 <<<<"k1", "v1">>, <<"k2", "v1">>>>}
RefreshRecords == StateRecords(RefreshStates, RefreshTime, RefreshLists, RefreshDescs)
RelationRecords ==
    [subject : 1..RefreshStates, type : {"r1"}, object : 1..RefreshStates,
     basis : {"b1"}]

NextRefresh ==
    \/ \E r \in RefreshRecords : StoreNewState(r)
    \/ \E r \in RefreshRecords : StoreExistingState(r, "restore")
    \/ \E rel \in RelationRecords : store_state_relations(rel)

SpecRefresh == Init /\ [][NextRefresh]_vars

\* States of A or of B with known bounds are stored, and stored again with
\* another period or the other entity as the member.
RetimeStates == 3
RetimeTime == 2
RetimeRecords ==
    {r \in StateRecords(RetimeStates, RetimeTime, {<<"A">>, <<"B">>}, NoDesc) :
        r.time # EmptyTime}

NextRetime ==
    \/ \E r \in RetimeRecords : StoreNewState(r)
    \/ \E r \in RetimeRecords : StoreExistingState(r, "restore")

SpecRetime == Init /\ [][NextRetime]_vars

-----------------------------------------------------------------------------
(* One store_knowledge_graph call with several records.  call.data is the  *)
(* submitted data [ents, sts, rels], call.pc the loop that is running,     *)
(* call.todo the records that loop has not processed yet and call.log the  *)
(* records processed so far.  No processor is registered, so each record   *)
(* is one write transaction.  call.n counts the calls made.  A call that   *)
(* raised is not followed up: the graph it leaves is the one left by a     *)
(* call of the records it processed.                                       *)

BatchTimes == {EmptyTime, ImpossibleTime} \cup {<<d, d>> : d \in 1..BatchTime}
BatchLists == {<<"A", "A">>, <<"B">>, <<"B", "A">>}
BatchStateRecords ==
    [id : 1..BatchStates, time : BatchTimes, members : BatchLists, desc : NoDesc]
BatchEntities ==
    {<<>>, <<[id |-> "A", type |-> "place"], [id |-> "B", type |-> "place"]>>}
BatchRelations ==
    {<<>>, <<[subject |-> 1, type |-> "r1", object |-> 2, basis |-> "b1"],
             [subject |-> 2, type |-> "r1", object |-> 1, basis |-> "b1"]>>}
SeqsUpTo(S, n) == UNION {[1..k -> S] : k \in 0..n}
BatchData ==
    [ents : BatchEntities, sts : SeqsUpTo(BatchStateRecords, BatchLen),
     rels : BatchRelations]

\* key=lambda x: self._parse_time_range(x.get("时间", ""))[0] or datetime.max
SortKey(r) ==
    LET p == parse_time_range(r.time)
    IN IF Known(p.start) THEN p.start ELSE DatetimeMax

\* the key function raises for some record
SortRaises(sts) == \E i \in 1..Len(sts) : parse_time_range(sts[i].time).raised

\* the states as they were submitted
sorted_states_unsorted(sts) == sts

\* sorted(states, key=...): ascending keys, records with equal keys in the
\* order of the list
RECURSIVE sorted_states(_)
sorted_states(sts) ==
    IF sts = <<>> THEN <<>>
    ELSE LET x == sts[Len(sts)]
             front == sorted_states(SubSeq(sts, 1, Len(sts) - 1))
             k == Cardinality({i \in 1..Len(front) : SortKey(front[i]) <= SortKey(x)})
         IN SubSeq(front, 1, k) \o <<x>> \o SubSeq(front, k + 1, Len(front))

\* the loop of call.pc is done with the first record of call.todo
Advance(kind) ==
    [call EXCEPT !.todo = Tail(@),
                 !.log = Append(@, [kind |-> kind, rec |-> Head(call.todo)])]

\* store_knowledge_graph(data) is called
StartCall(data) ==
    /\ call.pc = "idle" /\ ~hung
    /\ call.n < MaxCalls
    /\ call' = [pc |-> "entities", n |-> call.n + 1, data |-> data,
                todo |-> data.ents, log |-> <<>>]
    /\ raised' = NoError
    /\ last' = "call"
    /\ UNCHANGED <<entity_nodes, state_nodes, hasState, nextState, contain,
                   attribute_nodes, hasAttribute, hasRelation, hung, calls>>
    /\ UNCHANGED procVars

\* one pass of the loop of store_base_entities
EntityOfBatch ==
    /\ call.pc = "entities" /\ call.todo # <<>>
    /\ entity_nodes' =
          create_base_entity(Graph, Head(call.todo).id, Head(call.todo).type).ent
    /\ ProcessEntity([id |-> Head(call.todo).id, type |-> Head(call.todo).type,
                      name |-> Head(call.todo).id],
                     <<Head(call.todo).id, Head(call.todo).type>>)
    /\ call' = Advance("entity")
    /\ last' = "entity"
    /\ UNCHANGED <<state_nodes, hasState, nextState, contain, attribute_nodes,
                   hasAttribute, hasRelation, hung, raised, calls>>

\* store_state_entities begins: the states are sorted, or the key function
\* raises and the call ends
SortStates ==
    /\ call.pc = "entities" /\ call.todo = <<>>
    /\ IF SortRaises(call.data.sts)
       THEN /\ call' = [call EXCEPT !.pc = "raised", !.todo = call.data.sts]
            /\ raised' = ValueError
       ELSE /\ call' = [call EXCEPT !.pc = "states",
                                     !.todo = sorted_states(call.data.sts)]
            /\ raised' = raised
    /\ last' = "sort"
    /\ UNCHANGED <<entity_nodes, state_nodes, hasState, nextState, contain,
                   attribute_nodes, hasAttribute, hasRelation, hung, calls>>
    /\ UNCHANGED procVars

\* one pass of the loop of store_state_entities: the transaction returns, or
\* raises and ends the call, or never returns
StateOfBatch ==
    /\ call.pc = "states" /\ call.todo # <<>> /\ ~hung
    /\ \E o \in create_state_entity(Graph, Head(call.todo)) :
          /\ Commit(o, "state")
          /\ call' = IF o.ok THEN Advance("state")
                     ELSE IF o.err THEN [call EXCEPT !.pc = "raised"]
                     ELSE call

\* the graphs _create_state_entity has written when a statement of its
\* transaction fails: nothing yet, the state node, the state node and the
\* edges of the first members, or all these and the first attributes
Interrupted(g, r) ==
    LET g1 == upsert_state(g, r)
        upTo(k) == IF r.id \in DOMAIN g.st THEN Returns(g1)
                   ELSE ForEachMember(Returns(g1), SubSeq(r.members, 1, k), r.id)
    IN {g, g1}
       \cup {o.g : o \in {x \in UNION {upTo(k) : k \in 1..Len(r.members)} : x.ok}}
       \cup {attach_attributes(o.g, r.id, SubSeq(r.desc, 1, j)) :
               o \in {x \in upTo(Len(r.members)) : x.ok}, j \in 1..Len(r.desc)}

\* one pass of the loop of store_state_entities in which the database fails:
\* execute_write rolls back and raises, and nothing catches the exception
StateFails ==
    /\ call.pc = "states" /\ call.todo # <<>> /\ ~hung
    /\ \E w \in Interrupted(Graph, Head(call.todo)) :
          /\ Written(RolledBack(Graph, w))
          /\ calls' = w.calls
    /\ raised' = TransactionError
    /\ call' = [call EXCEPT !.pc = "raised"]
    /\ last' = "state"
    /\ UNCHANGED hung
    /\ UNCHANGED procVars

\* store_state_entities returns and store_state_relations begins
EndStates ==
    /\ call.pc = "states" /\ call.todo = <<>>
    /\ call' = [call EXCEPT !.pc = "relations", !.todo = call.data.rels]
    /\ last' = "sorted"
    /\ UNCHANGED <<entity_nodes, state_nodes, hasState, nextState, contain,
                   attribute_nodes, hasAttribute, hasRelation, hung, raised, calls>>
    /\ UNCHANGED procVars

\* one pass of the loop of store_state_relations
RelationOfBatch ==
    /\ call.pc = "relations" /\ call.todo # <<>>
    /\ Written(create_state_relation(Graph, Head(call.todo)))
    /\ call' = Advance("relation")
    /\ last' = "relation"
    /\ UNCHANGED <<hung, raised, calls>>
    /\ UNCHANGED procVars

\* store_knowledge_graph returns
ReturnCall ==
    /\ call.pc = "relations" /\ call.todo = <<>>
    /\ call' = [Idle EXCEPT !.n = call.n]
    /\ last' = "return"
    /\ UNCHANGED <<entity_nodes, state_nodes, hasState, nextState, contain,
                   attribute_nodes, hasAttribute, hasRelation, hung, raised, calls>>
    /\ UNCHANGED procVars

NextBatch ==
    \/ \E data \in BatchData : StartCall(data)
    \/ EntityOfBatch
    \/ SortStates
    \/ StateOfBatch
    \/ StateFails
    \/ EndStates
    \/ RelationOfBatch
    \/ ReturnCall

SpecBatch == Init /\ [][NextBatch]_vars

\* One store_knowledge_graph call into the empty store whose states all have
\* known bounds, nested periods and joint states included; the states of a
\* batch have the ids 1, 2, ... in the order of the list.
SortedTime == 2
SortedLen == 3
SortedTimes == {t \in (1..SortedTime) \X (1..SortedTime) : t[1] <= t[2]}
SortedStateLists ==
    UNION {{[i \in 1..k |-> [id |-> i, time |-> f[i].time,
                             members |-> f[i].members, desc |-> <<>>]] :
              f \in [1..k -> [time : SortedTimes,
                              members : {<<"A">>, <<"B", "A">>}]]} :
           k \in 0..SortedLen}
SortedData ==
    [ents : {<<[id |-> "A", type |-> "place"]>>},
     sts : SortedStateLists,
     rels : {<<[subject |-> 2, type |-> "r1", object |-> 1, basis |-> "b1"],
               [subject |-> 1, type |-> "r1", object |-> 1, basis |-> "b1"]>>}]

NextSorted ==
    \/ \E data \in SortedData : StartCall(data)
    \/ EntityOfBatch
    \/ SortStates
    \/ StateOfBatch
    \/ EndStates
    \/ RelationOfBatch
    \/ ReturnCall

SpecSorted == Init /\ [][NextSorted]_vars

\* add_processor(processor) for a processor called name
AddProcessor(name) ==
    /\ registrations < MaxRegistrations
    /\ registrations' = registrations + 1
    /\ processors' = add_processor(processors, name, registrations + 1)
    /\ last' = "add"
    /\ UNCHANGED <<entity_nodes, state_nodes, hasState, nextState, contain,
                   attribute_nodes, hasAttribute, hasRelation, hung, raised,
                   calls, call, applied, node_props, node_labels>>

\* remove_processor(name) for a name in the registry
RemoveProcessor(name) ==
    /\ \E i \in DOMAIN processors : processors[i].name = name
    /\ processors' = remove_processor(processors, name)
    /\ last' = "remove"
    /\ UNCHANGED <<entity_nodes, state_nodes, hasState, nextState, contain,
                   attribute_nodes, hasAttribute, hasRelation, hung, raised,
                   calls, call, registrations, applied, node_props, node_labels>>

\* Processors are registered, registered again and removed, and entity A is
\* stored with either type.
NextProcessors ==
    \/ \E name \in ProcessorNames : AddProcessor(name)
    \/ \E name \in ProcessorNames : RemoveProcessor(name)
    \/ \E type \in TwoTypes : store_base_entities("A", type)

SpecProcessors == Init /\ [][NextProcessors]_vars

-----------------------------------------------------------------------------
(* Reading an entity's structure off the stored graph *)

\* the states whose member list (s.entity_ids) names e
MemberStates(e) ==
    {s \in DOMAIN state_nodes : InTags(e, state_nodes[s].entity_ids)}

\* the states the has-head edge(s) of e point at
Heads(e) == HeadsOf(Graph, e)

NextOf(e, s) == TaggedOut(nextState, s, e)
ChildOf(e, s) == TaggedOut(contain, s, e)

\* the states reached from the set from by the edges step(s), from included
RECURSIVE Closure(_, _, _)
Closure(from, step(_), fuel) ==
    LET more == from \cup UNION {step(s) : s \in from}
    IN IF more = from \/ fuel = 0 THEN from ELSE Closure(more, step, fuel - 1)

\* what the traversal from e's has-head edge along e's next/contains edges
\* visits in graph g
VisitedIn(g, e) ==
    LET step(s) == TaggedOut(g.nx, s, e) \cup TaggedOut(g.ct, s, e)
    IN Closure(HeadsOf(g, e), step, MaxStates)

Visited(e) == VisitedIn(Graph, e)

\* the top-level chain of e: its head and what e's next edges reach from it
TopChain(e) ==
    LET step(s) == NextOf(e, s)
    IN Closure(Heads(e), step, MaxStates)

\* the states after s on e's next edges
After(e, s) ==
    LET step(x) == NextOf(e, x)
    IN Closure(NextOf(e, s), step, MaxStates)

\* the states below s: reached from s by a contains edge of e and then by any
\* of e's next/contains edges
Below(e, s) ==
    LET step(x) == NextOf(e, x) \cup ChildOf(e, x)
    IN Closure(ChildOf(e, s), step, MaxStates)

\* the times the traversal of e arrives at s: once by the has-head edge, once
\* by every next or contains edge of e that leaves a visited state
Arrivals(e, s) ==
    (IF s \in Heads(e) THEN 1 ELSE 0)
    + Cardinality({x \in Visited(e) : s \in NextOf(e, x)})
    + Cardinality({x \in Visited(e) : s \in ChildOf(e, x)})

\* the edges of e that enter s, the has-head edge counted once
Incoming(e, s) ==
    (IF s \in Heads(e) THEN 1 ELSE 0)
    + Cardinality({x \in DOMAIN state_nodes : s \in NextOf(e, x)})
    + Cardinality({x \in DOMAIN state_nodes : s \in ChildOf(e, x)})

Period(s) == parse_time_range(state_nodes[s].time)
HasBounds(s) == Known(Period(s).start) /\ Known(Period(s).end)
\* a's period contains b's (spec 4.1 contains)
Contains(a, b) ==
    /\ HasBounds(a) /\ HasBounds(b)
    /\ Period(a).start <= Period(b).start /\ Period(a).end >= Period(b).end
\* spec 4.1 precedes
Precedes(a, b) ==
    /\ Known(Period(a).start) /\ Known(Period(b).start)
    /\ Period(a).start < Period(b).start

-----------------------------------------------------------------------------
(* The claims *)

\* C1: for every entity E the traversal from E's has-head edge along the
\* next/contains edges tagged E arrives at no state twice and visits exactly
\* the states whose member list contains E.
C1_ChainWellFormed ==
    \A e \in EntityIds :
        /\ \A s \in Visited(e) : Arrivals(e, s) = 1
        /\ Visited(e) = MemberStates(e)

\* C2: for every entity E and state S, S has at most one outgoing next edge
\* tagged E, at most one outgoing contains edge tagged E and at most one
\* incoming edge tagged E among next, contains and has-head edges.
C2_DegreeBounds ==
    \A e \in EntityIds : \A s \in DOMAIN state_nodes :
        /\ Cardinality(NextOf(e, s)) <= 1
        /\ Cardinality(ChildOf(e, s)) <= 1
        /\ Incoming(e, s) <= 1

\* C3: for every entity E and member states A, B of E with known bounds where
\* A's period contains B's and differs from it, B lies below A: it is reached
\* from A through a contains edge tagged E and further edges tagged E.
C3_NestingReachable ==
    \A e \in EntityIds : \A a, b \in MemberStates(e) :
        (a # b /\ Contains(a, b) /\ ~Contains(b, a)) => b \in Below(e, a)

\* C4: for every entity E and states A, B on E's top-level chain with
\* A.start < B.start and neither period containing the other, B is reached
\* from A by next edges tagged E.
C4_SequencingReachable ==
    \A e \in EntityIds : \A a, b \in TopChain(e) :
        (Precedes(a, b) /\ ~Contains(a, b) /\ ~Contains(b, a)) => b \in After(e, a)

\* C9: every next edge X -> Y tagged E joins states with known bounds such
\* that Y begins no earlier than X and Y's period is not contained by X's.
C9_NextEdgeOrder ==
    \A e \in EntityIds : \A x \in DOMAIN state_nodes : \A y \in NextOf(e, x) :
        (HasBounds(x) /\ HasBounds(y)) =>
            (Period(x).start <= Period(y).start /\ ~Contains(x, y))

\* C10: every contains edge X -> Y tagged E joins states with known bounds
\* such that Y's period is nested inside X's.
C10_ContainEdgeNested ==
    \A e \in EntityIds : \A x \in DOMAIN state_nodes : \A y \in ChildOf(e, x) :
        Contains(x, y)

\* storing again, as it is stored, any stored state and any stored relation
\* leaves the whole graph as it is, and no relation edge exists twice
RerunChangesNothing ==
    /\ \A i \in DOMAIN state_nodes :
          create_state_entity(Graph, StoredRecord(i)) = Returns(Graph)
    /\ \A rel \in BagToSet(hasRelation) :
          /\ create_state_relation(Graph, rel) = Graph
          /\ CopiesIn(rel, hasRelation) = 1

\* C5: a step that stores a state whose ID already exists (it adds no state
\* node) leaves the has-head, next and contains edges and their tag lists as
\* they are; and repeating a store leaves the chains as they are and creates
\* no duplicate chain, attribute or relation edge.
C5_RestoreKeepsChains ==
    /\ [][(DOMAIN state_nodes' = DOMAIN state_nodes) =>
            (hasState' = hasState /\ nextState' = nextState /\ contain' = contain)]_vars
    /\ []RerunChangesNothing

\* a state was stored again with the empty time after it had been placed
\* under another state, which only a state with known bounds is
C5_Witness ==
    /\ last = "restore"
    /\ \E p \in DOMAIN contain : state_nodes[p[2]].time = EmptyTime

\* every next or contains edge that g tags with b is in h and tagged with b,
\* and b's traversal visits the same states in h as in g
FrameKept(g, h, b) ==
    /\ \A p \in DOMAIN g.nx :
          InTags(b, g.nx[p]) => (p \in DOMAIN h.nx /\ InTags(b, h.nx[p]))
    /\ \A p \in DOMAIN g.ct :
          InTags(b, g.ct[p]) => (p \in DOMAIN h.ct /\ InTags(b, h.ct[p]))
    /\ VisitedIn(h, b) = VisitedIn(g, b)

\* the insertions of state n into the chains of members, one after the other
\* as _create_state_entity runs them from the graphs outs, each keep the frame
\* of every entity other than the one inserted into
RECURSIVE InsertionsIndependent(_, _, _)
InsertionsIndependent(outs, members, n) ==
    \/ members = <<>>
    \/ /\ \A o \in outs : o.ok =>
             \A h \in handle_entity_state_chain(o.g, Head(members), n) : h.ok =>
                 \A b \in EntityIds \ {Head(members)} : FrameKept(o.g, h.g, b)
       /\ InsertionsIndependent(
             UNION {IF o.ok THEN handle_entity_state_chain(o.g, Head(members), n)
                    ELSE {o} : o \in outs},
             Tail(members), n)

\* the records of a state that is not stored yet
NewRecords ==
    {r \in StateRecords(JointStates, JointTime, MemberLists(EntityIds), NoDesc) :
        r.id \notin DOMAIN state_nodes}

\* C6: inserting a state into entity A's chain removes no other entity B's ID
\* from an edge's tag list, deletes no edge tagged B and leaves the states B's
\* traversal reaches unchanged, for every insertion a store call can make here,
\* joint states included.
C6_InsertionIndependent ==
    \A r \in NewRecords :
        InsertionsIndependent(Returns(upsert_state(Graph, r)), r.members, r.id)

\* C7: every invocation of the chain insertion terminates.
C7_InsertionTerminates == ~hung

\* the has-head edges of entity id e
HasHeadEdges(e) == {h \in hasState : h[1][1] = e}

\* C8 (first half): every entity with a member state in its chain has exactly
\* one has-head edge.
C8_ExactlyOneHasHead ==
    \A e \in EntityIds : MemberStates(e) # {} => Cardinality(HasHeadEdges(e)) = 1

\* C8 (second half): the target of an entity's has-head edge changes only in a
\* step that stores a new state with known bounds whose period contains or
\* precedes the old head's, and that state is the new target.
C8_HeadMovesOnlyBySplice ==
    [][\A e \in EntityIds :
          (Heads(e) # {} /\ Heads(e)' # Heads(e)) =>
              \E n \in (DOMAIN state_nodes') \ (DOMAIN state_nodes) :
                  /\ Heads(e)' = {n}
                  /\ \A h \in Heads(e) :
                        LET P(x) == parse_time_range(state_nodes'[x].time)
                        IN /\ Known(P(n).start) /\ Known(P(n).end) /\ Known(P(h).start)
                           /\ \/ P(n).start < P(h).start
                              \/ /\ Known(P(h).end)
                                 /\ P(n).start <= P(h).start /\ P(n).end >= P(h).end
      ]_vars

-----------------------------------------------------------------------------
(* Store calls with several records *)

\* C11: when the transaction of one state record fails, the step leaves every
\* node and edge as it was before the record (the writes of the records
\* committed earlier in the call included), the records processed so far stay
\* processed, and the call ends with the failure raised to its caller.
C11_FailedRecordLeavesNoWrite ==
    [][(raised' = TransactionError /\ raised # TransactionError) =>
          /\ UNCHANGED <<entity_nodes, state_nodes, hasState, nextState, contain,
                         attribute_nodes, hasAttribute, hasRelation>>
          /\ call'.log = call.log
          /\ call'.pc = "raised"
      ]_vars

\* the transaction of the second state of a call failed after it had run a
\* chain insertion; the first state of the call is stored, the second is not
C11_Witness ==
    /\ call.pc = "raised" /\ raised = TransactionError
    /\ calls # <<>>
    /\ \E i \in 1..Len(call.log) :
          call.log[i].kind = "state" /\ call.log[i].rec.id \in DOMAIN state_nodes
    /\ Head(call.todo).id \notin DOMAIN state_nodes

\* two state records with different ids and no member entity in common
Unrelated(r, q) ==
    /\ r.id # q.id
    /\ \A i \in 1..Len(r.members), j \in 1..Len(q.members) : r.members[i] # q.members[j]

\* C12: a call never ends by the failure of one state record's transaction
\* while a later record of the call that is unrelated to it is unprocessed.
C12_BatchGoesOn ==
    ~(/\ call.pc = "raised" /\ raised = TransactionError
      /\ \E i \in 2..Len(call.todo) : Unrelated(call.todo[1], call.todo[i]))

\* C13: no time text makes a store call raise (an impossible date is treated
\* as unknown bounds).
C13_NoTimeRaises == raised # ValueError

\* r must be processed before q: r's start is known and q's is unknown or later
StartsBefore(r, q) ==
    LET a == parse_time_range(r.time).start
        b == parse_time_range(q.time).start
    IN Known(a) /\ (~Known(b) \/ a < b)

\* the sequences s and t hold the same elements the same number of times
SameElements(s, t) ==
    /\ Len(s) = Len(t)
    /\ \E f \in [1..Len(s) -> 1..Len(s)] :
          /\ \A i, j \in 1..Len(s) : i # j => f[i] # f[j]
          /\ \A i \in 1..Len(s) : s[i] = t[f[i]]

\* the chain insertions _create_state_entity makes for a new state r
MemberCalls(r) == [i \in 1..Len(r.members) |-> <<r.members[i], r.id>>]

\* C14: in a store_knowledge_graph call the records processed so far are the
\* entities in submission order, then states such that none is processed
\* before one that starts earlier (unknown starts last), then the relations in
\* submission order; the states processed and those still to process are the
\* submitted ones; when the call returns every record has been processed; and
\* the chain insertions of one state are made in member-list order.
C14_ProcessingOrder ==
    call.pc \in {"entities", "states", "relations"} =>
      LET log == call.log
          ne == Len(call.data.ents)
          ns == Len(call.data.sts)
          nr == Len(call.data.rels)
          stateLog == [i \in 1..(IF Len(log) <= ne THEN 0
                                 ELSE IF Len(log) <= ne + ns THEN Len(log) - ne
                                 ELSE ns) |-> log[ne + i].rec]
      IN /\ Len(log) <= ne + ns + nr
         /\ \A i \in 1..Len(log) :
               /\ i <= ne => log[i] = [kind |-> "entity", rec |-> call.data.ents[i]]
               /\ (ne < i /\ i <= ne + ns) => log[i].kind = "state"
               /\ ne + ns < i =>
                     log[i] = [kind |-> "relation", rec |-> call.data.rels[i - ne - ns]]
         /\ call.pc = "entities" => Len(log) <= ne
         /\ call.pc = "states" =>
               /\ Len(log) >= ne /\ Len(log) <= ne + ns
               /\ SameElements(stateLog \o call.todo, call.data.sts)
               /\ \A i \in 1..Len(stateLog), j \in 1..Len(call.todo) :
                     ~StartsBefore(call.todo[j], stateLog[i])
         /\ call.pc = "relations" =>
               /\ Len(log) >= ne + ns
               /\ SameElements(stateLog, call.data.sts)
               /\ call.todo = <<>> => Len(log) = ne + ns + nr
         /\ \A i, j \in 1..Len(stateLog) :
               i < j => ~StartsBefore(stateLog[j], stateLog[i])
         /\ (last = "state" /\ raised = NoError /\ ~hung) =>
               calls \in {<<>>, MemberCalls(stateLog[Len(stateLog)])}

\* a call has processed its two entities, then its two states, submitted with
\* the unknown start first and stored with the known start first, the second
\* one inserted for B and then for A, and then its two relations
C14_Witness ==
    /\ call.pc = "relations" /\ call.todo = <<>> /\ Len(call.log) = 6
    /\ call.data.sts[1].time = EmptyTime
    /\ call.log[3].rec.time # EmptyTime
    /\ call.log[4].rec = call.data.sts[1]
    /\ calls = <<<<"B", call.log[4].rec.id>>, <<"A", call.log[4].rec.id>>>>

\* C15: the chain insertions of one transaction name no (entity, state) pair
\* twice, whatever the member list, and no next or contains edge joins a
\* state to itself.
C15_InsertedOncePerPair ==
    /\ \A i, j \in 1..Len(calls) : i # j => calls[i] # calls[j]
    /\ \A p \in (DOMAIN nextState) \cup (DOMAIN contain) : p[1] # p[2]

\* C16: there is at most one entity node per entity id.
C16_OneNodePerEntityId ==
    \A e \in EntityIds : Cardinality(NodesOf(Graph, e)) <= 1

\* C17: storing a new state that names a member entity for which no node
\* exists returns without an error and leaves a placeholder node of type
\* "unknown" with that id and the new state as the head of that entity's
\* chain, for every store call that can be made here.
C17_PlaceholderForMissingEntity ==
    \A r \in NewRecords : \A e \in EntityIds :
        (InTags(e, r.members) /\ NodesOf(Graph, e) = {}) =>
            \A o \in create_state_entity(Graph, r) :
                /\ o.ok
                /\ <<e, UnknownType>> \in o.g.ent
                /\ HeadsOf(o.g, e) = {r.id}

\* C17, for the stores that return: a step that stores a new state naming a
\* member entity for which no node existed leaves the placeholder node with
\* the new state as the entity's only head.
C17_PlaceholderWhenStored ==
    [][\A n \in (DOMAIN state_nodes') \ (DOMAIN state_nodes) :
          \A e \in EntityIds :
             (InTags(e, state_nodes'[n].entity_ids) /\ NodesOf(Graph, e) = {}) =>
                /\ <<e, UnknownType>> \in entity_nodes'
                /\ Heads(e)' = {n}
                /\ raised' = NoError
      ]_vars

\* the edges of rel that are not in rel2 carried only tags of the entities es
DeletedOnlyFor(rel, rel2, es) ==
    \A p \in (DOMAIN rel) \ (DOMAIN rel2) :
        \A i \in 1..Len(rel[p]) : rel[p][i] \in es

\* C20: no next or contains edge has an empty entity-tag list, and a step
\* deletes a next or contains edge only if every tag of its list was the id of
\* an entity whose chain insertion ran in that step: an edge that still names
\* another entity is kept.
C20_NoEmptyTagList ==
    /\ [](/\ \A p \in DOMAIN nextState : nextState[p] # <<>>
          /\ \A p \in DOMAIN contain : contain[p] # <<>>)
    /\ [][LET es == {calls'[i][1] : i \in 1..Len(calls')}
          IN /\ DeletedOnlyFor(nextState, nextState', es)
             /\ DeletedOnlyFor(contain, contain', es)]_vars

\* states 1 and 2 of A and B were joined by a contains edge tagged for both;
\* state 3 of A alone was put between them: the edge lost A's tag and is kept
\* for B
C20_Witness ==
    /\ DOMAIN state_nodes = {1, 2, 3}
    /\ state_nodes[3].entity_ids = <<"A">>
    /\ <<1, 2>> \in DOMAIN contain /\ contain[<<1, 2>>] = <<"B">>
    /\ <<1, 3>> \in DOMAIN contain /\ contain[<<1, 3>>] = <<"A">>
    /\ <<3, 2>> \in DOMAIN contain /\ contain[<<3, 2>>] = <<"A">>

-----------------------------------------------------------------------------
(* The cases of the chain insertion, read off the steps that store a new   *)
(* state n of one member entity e                                          *)

\* the states a step stores for the first time
NewStates == (DOMAIN state_nodes') \ (DOMAIN state_nodes)

\* rel has an edge a -> b whose list names e
Tagged(rel, a, b, e) == <<a, b>> \in DOMAIN rel /\ InTags(e, rel[<<a, b>>])

\* the step replaced e's edge p -> c, of either type, by an edge of the same
\* type p -> n, for every p
Redirected(e, c, n) ==
    \A p \in DOMAIN state_nodes :
        /\ Tagged(nextState, p, c, e) =>
              (~Tagged(nextState', p, c, e) /\ Tagged(nextState', p, n, e))
        /\ Tagged(contain, p, c, e) =>
              (~Tagged(contain', p, c, e) /\ Tagged(contain', p, n, e))

\* C24: a step that splices the new state N above a state C (it creates the
\* contains edge N -> C tagged E) moves E's has-head edge from C to N when C was
\* the head, and otherwise replaces the E-tagged edge that entered C, a next
\* edge or a contains edge, by an edge of the same type into N.
C24_SpliceAboveCursor ==
    [][\A n \in NewStates : \A e \in EntityIds : \A c \in DOMAIN state_nodes :
          (state_nodes'[n].entity_ids = <<e>> /\ Tagged(contain', n, c, e)) =>
             IF c \in Heads(e) THEN Heads(e)' = {n} ELSE Redirected(e, c, n)
      ]_vars

\* the first state after c on e's next chain that the new state n does not
\* contain, all states between c and it being contained by n
FirstNotContained(e, c, n) ==
    {x \in After(e, c) :
        /\ ~Contains(n, x)'
        /\ \A y \in After(e, c) : x \in After(e, y) => Contains(n, y)'}

\* C25: a step that splices N above C gives N a next edge tagged E to the
\* first state X after C on E's next chain that N does not contain, and to no
\* other state (to none when N contains them all), and removes E's tag from
\* the next edge that entered X.
C25_ForwardWalkRelinksFirstOutside ==
    [][\A n \in NewStates : \A e \in EntityIds : \A c \in DOMAIN state_nodes :
          (state_nodes'[n].entity_ids = <<e>> /\ Tagged(contain', n, c, e)) =>
             /\ TaggedOut(nextState', n, e) = FirstNotContained(e, c, n)
             /\ \A x \in FirstNotContained(e, c, n) : \A p \in DOMAIN state_nodes :
                   Tagged(nextState, p, x, e) => ~Tagged(nextState', p, x, e)
      ]_vars

\* C26: a step that splices the new state N before a state C that is not E's
\* head (it creates the next edge N -> C tagged E and no contains edge leaving
\* N) replaces the E-tagged edge that entered C, a next edge or a contains
\* edge, by an edge of the same type into N.
C26_SpliceBeforeCursor ==
    [][\A n \in NewStates : \A e \in EntityIds : \A c \in DOMAIN state_nodes :
          (/\ state_nodes'[n].entity_ids = <<e>>
           /\ Tagged(nextState', n, c, e)
           /\ TaggedOut(contain', n, e) = {}
           /\ c \notin Heads(e)) =>
             Redirected(e, c, n)
      ]_vars

\* the graph a step leaves
GraphAfter == Graph'

\* the graph of a step's transaction once the new state's node is written
GraphWithNode == [Graph EXCEPT !.st = state_nodes']

\* the graph a step leaves is a graph of one of the outcomes outs
Leaves(outs) ==
    \E o \in outs :
        /\ o.ok
        /\ o.g.hs = hasState' /\ o.g.nx = nextState' /\ o.g.ct = contain'

\* the newest stored state
Newest == Len(state_nodes)

\* C27: a step that stores N when N precedes E's head C and neither contains
\* the other moves E's has-head edge from C to N and creates the next edge
\* N -> C tagged E; no other edge changes.
C27_SpliceBeforeHead ==
    [][\A n \in NewStates : \A e \in EntityIds : \A c \in DOMAIN state_nodes :
          (/\ state_nodes'[n].entity_ids = <<e>>
           /\ Heads(e) = {c}
           /\ Precedes(n, c)' /\ ~Contains(n, c)' /\ ~Contains(c, n)') =>
             /\ hasState' = (hasState \ {<<nd, c>> : nd \in NodesOf(Graph, e)})
                               \cup {<<h[1], n>> : h \in {x \in hasState : x[2] = c}}
             /\ Heads(e)' = {n}
             /\ nextState' = nextState @@ (<<n, c>> :> <<e>>)
             /\ contain' = contain
      ]_vars

\* C27, for an entity with one node: the has-head edge then moves from C to N
\* and the next edge N -> C is the only other change.
C27_SpliceBeforeHeadOneNode ==
    [][\A n \in NewStates : \A e \in EntityIds : \A c \in DOMAIN state_nodes :
          (/\ state_nodes'[n].entity_ids = <<e>>
           /\ Heads(e) = {c}
           /\ Cardinality(NodesOf(Graph, e)) = 1
           /\ Precedes(n, c)' /\ ~Contains(n, c)' /\ ~Contains(c, n)') =>
             /\ hasState' = (hasState \ {<<nd, c>> : nd \in NodesOf(Graph, e)})
                               \cup {<<nd, n>> : nd \in NodesOf(Graph, e)}
             /\ nextState' = nextState @@ (<<n, c>> :> <<e>>)
             /\ contain' = contain
      ]_vars

\* C28: when E's head C contains the new state N and has a contains child
\* tagged E, the step leaves what the walk leaves that goes on at that child
\* with prev = C on the unchanged graph; when C has none, N becomes C's child.
\* Every step that attaches N as the contains child of a state C (at any
\* depth) creates exactly that edge, tagged E, changes no other edge and no
\* has-head edge, and C contains N and had no contains child tagged E.
C28_AttachBelowCursor ==
    [][\A n \in NewStates : \A e \in EntityIds : \A c \in DOMAIN state_nodes :
          state_nodes'[n].entity_ids = <<e>> =>
             /\ (Heads(e) = {c} /\ Contains(c, n)' /\ ChildOf(e, c) # {}) =>
                   Leaves(UNION {Walk(GraphWithNode, e, n, Period(n)', c, d, c,
                                      MaxStates + 1) : d \in ChildOf(e, c)})
             /\ (Heads(e) = {c} /\ Contains(c, n)' /\ ChildOf(e, c) = {}) =>
                   Tagged(contain', c, n, e)
             /\ (/\ Tagged(contain', c, n, e)
                 /\ TaggedOut(contain', n, e) \cup TaggedOut(nextState', n, e) = {}) =>
                   /\ contain' = contain @@ (<<c, n>> :> <<e>>)
                   /\ nextState' = nextState
                   /\ hasState' = hasState
                   /\ Contains(c, n)'
                   /\ ChildOf(e, c) = {}
      ]_vars

\* a state was attached below a state that is not the head: the walk descended
C28_Witness ==
    /\ last = "new" /\ Newest >= 3
    /\ \E c \in DOMAIN state_nodes :
          /\ ChildOf("A", c) = {Newest} /\ Contains(c, Newest)
          /\ c \notin Heads("A")
          /\ \E h \in Heads("A") : c \in ChildOf("A", h)
    /\ NextOf("A", Newest) \cup ChildOf("A", Newest) = {}

\* C29: when E's head C precedes the new state N, neither contains the other
\* and C has a next state tagged E, the step leaves what the walk leaves that
\* goes on at that next state with prev = C on the unchanged graph; when C has
\* none, N is appended after C.  Every step that appends N after a state C (at
\* any depth) creates exactly that next edge, tagged E, and changes no other
\* edge; when N's start is known, C precedes N, neither contains the other
\* and C had no next state tagged E.
C29_AppendAfterCursor ==
    [][\A n \in NewStates : \A e \in EntityIds : \A c \in DOMAIN state_nodes :
          state_nodes'[n].entity_ids = <<e>> =>
             /\ (/\ Heads(e) = {c} /\ HasBounds(c)
                 /\ Precedes(c, n)' /\ ~Contains(c, n)' /\ ~Contains(n, c)'
                 /\ NextOf(e, c) # {}) =>
                   Leaves(UNION {Walk(GraphWithNode, e, n, Period(n)', c, x, c,
                                      MaxStates + 1) : x \in NextOf(e, c)})
             /\ (/\ Heads(e) = {c} /\ HasBounds(c)
                 /\ Precedes(c, n)' /\ ~Contains(c, n)' /\ ~Contains(n, c)'
                 /\ NextOf(e, c) = {}) =>
                   Tagged(nextState', c, n, e)
             /\ (/\ Tagged(nextState', c, n, e)
                 /\ TaggedOut(contain', n, e) \cup TaggedOut(nextState', n, e) = {}) =>
                   /\ nextState' = nextState @@ (<<c, n>> :> <<e>>)
                   /\ contain' = contain
                   /\ hasState' = hasState
                   /\ Known(Period(n)'.start) =>
                         /\ Precedes(c, n)' /\ ~Contains(c, n)' /\ ~Contains(n, c)'
                         /\ NextOf(e, c) = {}
      ]_vars

\* a state was appended after a state that is not the head: the walk moved on
C29_Witness ==
    /\ last = "new" /\ Newest >= 3
    /\ HasBounds(Newest)
    /\ \E c \in DOMAIN state_nodes :
          /\ NextOf("A", c) = {Newest} /\ Precedes(c, Newest)
          /\ c \notin Heads("A")
          /\ \E h \in Heads("A") : c \in NextOf("A", h)
    /\ NextOf("A", Newest) \cup ChildOf("A", Newest) = {}

\* the rows of the query of _get_entity_state_chain: the first state with
\* depth 0, and the end of every path of nextState edges tagged e with the
\* path's length
chain_rows(g, e) ==
    {[state_id |-> f, depth |-> 0] : f \in HeadsOf(g, e)} \cup
    {[state_id |-> q[1], depth |-> q[2]] :
       q \in {p \in UNION {NextPaths(g, e, f, {}) : f \in HeadsOf(g, e)} : p[2] > 0}}

\* the orders the query may give its rows in: the row of the first state, then
\* the rows of the second part ORDER BY depth, rows of one depth in any order
RECURSIVE query_rows_any_order(_)
query_rows_any_order(rows) ==
    IF rows = {} THEN {<<>>}
    ELSE UNION {{<<r>> \o t : t \in query_rows_any_order(rows \ {r})} : r \in rows}

RECURSIVE query_rows(_)
query_rows(rows) ==
    IF rows = {} THEN {<<>>}
    ELSE LET first == {r \in rows : \A q \in rows : r.depth <= q.depth}
         IN UNION {{<<r>> \o t : t \in query_rows(rows \ {r})} : r \in first}

\* key=lambda x: self._parse_time_range(x.get("time", ""))[0] or datetime.max
RowKey(g, row) == SortKey(g.st[row.state_id])

\* sorted(result, key=...): ascending keys, rows with equal keys in the order
\* of the query's result
RECURSIVE sorted_result(_, _)
sorted_result(g, result) ==
    IF result = <<>> THEN <<>>
    ELSE LET x == result[Len(result)]
             front == sorted_result(g, SubSeq(result, 1, Len(result) - 1))
             k == Cardinality({i \in 1..Len(front) : RowKey(g, front[i]) <= RowKey(g, x)})
         IN SubSeq(front, 1, k) \o <<x>> \o SubSeq(front, k + 1, Len(front))

\* _get_entity_state_chain(tx, entity_id) for an entity that has a node: the
\* set of the lists it may return
get_entity_state_chain(g, e) ==
    {sorted_result(g, q) : q \in query_rows(chain_rows(g, e))}

\* C30: a step that stores N when E has no has-head edge creates exactly one
\* edge, the has-head edge E -> N; afterwards the chain reader returns [N] and
\* the latest state of E is N.
C30_FirstStateIsHeadAndTail ==
    [][\A n \in NewStates : \A e \in EntityIds :
          (state_nodes'[n].entity_ids = <<e>> /\ Heads(e) = {}) =>
             /\ hasState \subseteq hasState'
             /\ Cardinality(hasState' \ hasState) = 1
             /\ \A h \in hasState' \ hasState : h[1][1] = e /\ h[2] = n
             /\ nextState' = nextState /\ contain' = contain
             /\ get_entity_state_chain(GraphAfter, e) =
                   {<<[state_id |-> n, depth |-> 0]>>}
             /\ get_entity_latest_state(GraphAfter, e) = {n}
      ]_vars

\* C30, for an entity with at most one node: one has-head edge is created, and
\* with any number of nodes the chain reader returns [N] and the latest state
\* is N.
C30_FirstStateOneNode ==
    [][\A n \in NewStates : \A e \in EntityIds :
          (state_nodes'[n].entity_ids = <<e>> /\ Heads(e) = {}) =>
             /\ Cardinality(NodesOf(Graph, e)) <= 1 =>
                   Cardinality(hasState' \ hasState) = 1
             /\ nextState' = nextState /\ contain' = contain
             /\ get_entity_state_chain(GraphAfter, e) =
                   {<<[state_id |-> n, depth |-> 0]>>}
             /\ get_entity_latest_state(GraphAfter, e) = {n}
      ]_vars

\* where following e's next edges from node as far as possible ends, no edge
\* followed twice (used holds the edges followed so far)
RECURSIVE FarEnds(_, _, _)
FarEnds(e, node, used) ==
    LET outs == {y \in NextOf(e, node) : <<node, y>> \notin used}
    IN IF outs = {} THEN {node}
       ELSE UNION {FarEnds(e, y, used \cup {<<node, y>>}) : y \in outs}

\* the tails of e's chain: the head when it has no next edge tagged e, else
\* where following e's next edges from the head ends
Tails(e) == UNION {FarEnds(e, h, {}) : h \in Heads(e)}

\* C31: a step that stores N with an unknown start when E has a chain creates
\* exactly one edge, a next edge tagged E from E's tail to N, and changes no
\* existing edge.
C31_UnknownStartAppendsAtTail ==
    [][\A n \in NewStates : \A e \in EntityIds :
          (/\ state_nodes'[n].entity_ids = <<e>>
           /\ ~Known(Period(n)'.start)
           /\ Heads(e) # {}) =>
             /\ \E l \in Tails(e) : nextState' = nextState @@ (<<l, n>> :> <<e>>)
             /\ contain' = contain
             /\ hasState' = hasState
      ]_vars

\* a state without a start was appended after a tail that is not the head
C31_Witness ==
    /\ last = "new" /\ Newest >= 3
    /\ ~Known(Period(Newest).start)
    /\ \E l \in DOMAIN state_nodes :
          /\ NextOf("A", l) = {Newest}
          /\ l \notin Heads("A") /\ l \in TopChain("A")
    /\ NextOf("A", Newest) \cup ChildOf("A", Newest) = {}

\* C32: storing a new state N with known bounds when the cursor the walk
\* starts at, E's head, has unknown bounds returns and appends N at E's tail by
\* a next edge tagged E, for every such store call that can be made here.
C32_UnknownCursorFallsBackToTail ==
    \A r \in NewRecords : \A e \in EntityIds : \A c \in DOMAIN state_nodes :
        (/\ r.members = <<e>>
         /\ Known(parse_time_range(r.time).start) /\ Known(parse_time_range(r.time).end)
         /\ Heads(e) = {c} /\ ~HasBounds(c)) =>
            \A o \in create_state_entity(Graph, r) :
                /\ o.ok
                /\ \E l \in Tails(e) : o.g.nx = nextState @@ (<<l, r.id>> :> <<e>>)

\* spec 4.1 contains and precedes for two parsed periods
PeriodContains(a, b) ==
    /\ Known(a.start) /\ Known(a.end) /\ Known(b.start) /\ Known(b.end)
    /\ a.start <= b.start /\ a.end >= b.end
PeriodPrecedes(a, b) == Known(a.start) /\ Known(b.start) /\ a.start < b.start

\* none of the cases (b)-(f) of the insertion applies to the new period new at
\* the cursor c
NoCaseApplies(new, c) ==
    /\ Known(new.start)
    /\ ~PeriodContains(Period(c), new) /\ ~PeriodPrecedes(Period(c), new)
    /\ ~PeriodContains(new, Period(c)) /\ ~PeriodPrecedes(new, Period(c))

\* C33: storing a new state N when none of the cases applies at the cursor
\* the walk starts at, E's head, returns without an exception and adds,
\* removes or re-tags no has-head, next or contains edge, for every such store
\* call that can be made here.
C33_NoCaseChangesNothing ==
    \A r \in NewRecords : \A e \in EntityIds : \A c \in DOMAIN state_nodes :
        (/\ r.members = <<e>>
         /\ Heads(e) = {c}
         /\ NoCaseApplies(parse_time_range(r.time), c)) =>
            \A o \in create_state_entity(Graph, r) :
                /\ o.ok /\ ~o.err
                /\ o.g.hs = hasState /\ o.g.nx = nextState /\ o.g.ct = contain

\* every state record of the list has known bounds
AllKnown(sts) ==
    \A i \in DOMAIN sts : LET t == parse_time_range(sts[i].time)
                          IN Known(t.start) /\ Known(t.end)

SameStart(a, b) == Period(a).start = Period(b).start

\* the member whose chain insertion is the last one of the step that stores n
LastMember(n) == state_nodes'[n].entity_ids[Len(state_nodes'[n].entity_ids)]

\* C34: in a batch stored into the empty store whose states all have known
\* bounds, no new state N is spliced before a state by the N-precedes-C case,
\* and an entity's has-head target changes only when N is spliced above a head
\* with the same start that it contains; N is the first state of the entity,
\* or attached below a state that contains it, or appended after a state that
\* precedes it, or spliced above such a state (read off the edges of the
\* member inserted last, which are as its insertion left them).
C34_SortedBatchNeverSplicesBefore ==
    [][(last' = "state" /\ AllKnown(call.data.sts) /\ call.n = 1) =>
         \A n \in NewStates : \A e \in EntityIds :
            InTags(e, state_nodes'[n].entity_ids) =>
               /\ ~\E c \in DOMAIN state_nodes :
                      Tagged(nextState', n, c, e) /\ TaggedOut(contain', n, e) = {}
               /\ \/ e # LastMember(n)
                  \/ Heads(e) = {} /\ Heads(e)' = {n}
                  \/ \E c \in DOMAIN state_nodes :
                        Tagged(contain', c, n, e) /\ Contains(c, n)'
                  \/ \E c \in DOMAIN state_nodes :
                        Tagged(nextState', c, n, e) /\ Precedes(c, n)'
                  \/ \E c \in DOMAIN state_nodes :
                        Tagged(contain', n, c, e) /\ Contains(n, c)' /\ SameStart(n, c)'
               /\ (Heads(e) # {} /\ Heads(e)' # Heads(e)) =>
                     \E c \in DOMAIN state_nodes :
                        /\ Heads(e) = {c} /\ Heads(e)' = {n}
                        /\ Tagged(contain', n, c, e)
                        /\ Contains(n, c)' /\ SameStart(n, c)'
      ]_vars

\* in a batch a state was attached below the child of the head, and the head
\* had moved to a state with the same start that contains the old head
C34_Witness ==
    /\ last = "state" /\ call.n = 1 /\ AllKnown(call.data.sts)
    /\ Cardinality(DOMAIN state_nodes) = 3
    /\ \E h, c, n \in DOMAIN state_nodes :
          /\ Heads("A") = {h} /\ ChildOf("A", h) = {c} /\ SameStart(h, c)
          /\ h # c /\ Period(h) # Period(c)
          /\ n \notin {h, c}
          /\ n \in NextOf("A", c) \cup ChildOf("A", c)

-----------------------------------------------------------------------------
(* Processors *)

\* the registered processors that support base entity records
Supporting == {p \in Elements(processors) :
                 BASE_ENTITY \in get_supported_entity_types(p.name)}

\* the initial context merged with the contexts that the first k processors
\* called returned
RECURSIVE Merged(_, _, _)
Merged(context, ran, k) ==
    IF k = 0 THEN context
    ELSE Update(Merged(context, ran, k - 1), ran[k].result.processor_context)

\* the graph operations of the first k processors called, one after another
RECURSIVE Collected(_, _)
Collected(ran, k) ==
    IF k = 0 THEN <<>>
    ELSE Collected(ran, k - 1) \o ran[k].result.graph_operations

\* the application a that a step storing a base entity made called exactly the
\* registered processors that support the type, one after another, each with
\* the initial context merged with what the ones before it returned, and
\* collected their operations in that order
AppliedInTurn(a) ==
    /\ a.ran = <<>> <=> Supporting = {}
    /\ Elements(a.ran) # {} => {r.proc : r \in Elements(a.ran)} = Supporting
    /\ Len(a.ran) = Cardinality(Supporting)
    /\ \A i \in DOMAIN a.ran :
          /\ a.ran[i].received = Merged(a.context, a.ran, i - 1)
          /\ a.ran[i].result =
                process(a.ran[i].proc.name, BASE_ENTITY, a.data, a.ran[i].received)
    /\ a.ops = Collected(a.ran, Len(a.ran))

\* C22 as stated: when a base entity record is stored, the registered
\* processors that support its type run one after another in the order in
\* which they were registered; each receives the initial context merged with
\* the contexts returned by those that ran before it, the operation list is
\* the concatenation of their operations, and no other processor is called.
C22_RunInRegistrationOrder ==
    [][last' = "entity" =>
         /\ AppliedInTurn(applied')
         /\ \A i, j \in DOMAIN applied'.ran :
               i < j => applied'.ran[i].proc.stamp < applied'.ran[j].proc.stamp
      ]_vars

\* C22 amended: the processors run in the order in which their names entered
\* the registry; a processor registered under a name that is in the registry
\* runs at the place of the one it replaces.
C22_RunInNameInsertionOrder ==
    [][last' = "entity" =>
         /\ AppliedInTurn(applied')
         /\ \A i, j \in DOMAIN applied'.ran :
               i < j => applied'.ran[i].proc.since < applied'.ran[j].proc.since
      ]_vars

\* two processors ran, the second with what the first returned, one of them
\* registered again under its name, while a processor that does not support
\* the type was registered
C22_Witness ==
    /\ last = "entity"
    /\ Len(applied.ran) >= 2
    /\ \E i \in DOMAIN applied.ran :
          /\ i > 1
          /\ "step1_completed" \in DOMAIN applied.ran[i].received
          /\ applied.ran[i].proc.name = "final_processor_2"
    /\ \E r \in Elements(applied.ran) : r.proc.stamp # r.proc.since
    /\ \E p \in Elements(processors) : p.name = "state_processor"

\* the operation at place i of ops is the last one that sets the property key
LastFor(ops, i, key) ==
    \A j \in DOMAIN ops :
        (j > i /\ ops[j].operation_type = "ADD_PROPERTY") =>
           /\ Get(ops[j].params, "key", "") # key
           /\ key \notin DOMAIN Get(ops[j].params, "properties", EmptyDict)

\* C23: after a base entity record is stored, every operation its processors
\* recorded with add_property(key, value) has left the property key = value on
\* the entity's node, and every operation recorded with add_label(label) has
\* left the label on it.
C23_SingleFormsTakeEffect ==
    [][last' = "entity" =>
         \A i \in DOMAIN applied'.ops :
            LET op == applied'.ops[i]
                id == applied'.data.id
            IN /\ ("key" \in DOMAIN op.params /\ LastFor(applied'.ops, i, op.params.key)) =>
                     /\ op.params.key \in DOMAIN node_props'[id]
                     /\ node_props'[id][op.params.key] = op.params.value
               /\ "label" \in DOMAIN op.params =>
                     op.params.label \in node_labels'[id]
      ]_vars

\* C23, the list forms: every operation recorded with add_properties or
\* add_labels has left its properties and labels on the entity's node.
C23_ListFormsTakeEffect ==
    [][last' = "entity" =>
         \A i \in DOMAIN applied'.ops :
            LET op == applied'.ops[i]
                id == applied'.data.id
            IN /\ "properties" \in DOMAIN op.params =>
                     \A k \in DOMAIN op.params.properties :
                        LastFor(applied'.ops, i, k) =>
                           /\ k \in DOMAIN node_props'[id]
                           /\ node_props'[id][k] = op.params.properties[k]
               /\ "labels" \in DOMAIN op.params =>
                     Elements(op.params.labels) \subseteq node_labels'[id]
      ]_vars

-----------------------------------------------------------------------------
(* Relations *)

\* C21: a step that stores a relation leaves every node, every has-head, next
\* and contains edge with its tag list and every attribute edge as they are,
\* removes no relation edge and adds at most one, from the relation's subject
\* to its object, the same state included.
C21_RelationKeepsChains ==
    [][last' = "relation" =>
          /\ UNCHANGED <<entity_nodes, state_nodes, hasState, nextState, contain,
                         attribute_nodes, hasAttribute>>
          /\ hasRelation \sqsubseteq hasRelation'
          /\ BagCardinality(hasRelation') <= BagCardinality(hasRelation) + 1
          /\ \A rel \in BagToSet(hasRelation') :
                rel.subject \in DOMAIN state_nodes /\ rel.object \in DOMAIN state_nodes
      ]_vars

\* a relation from a state to itself was stored when the state was part of a
\* chain with an edge
C21_Witness ==
    /\ last = "relation"
    /\ \E rel \in BagToSet(hasRelation) : rel.subject = rel.object
    /\ (DOMAIN nextState) \cup (DOMAIN contain) # {}

-----------------------------------------------------------------------------
(* Attributes *)

\* C18: a step that stores a state with the descriptive map M leaves, for
\* every (key, value) pair of M, an Attribute node with the id
\* {state_id}-{value} holding value and an edge from the state to that node
\* whose type is key; pairs of M with the same value included.  (The map of
\* the latest store is read off the submitted records: the step is one of
\* them.)
C18_EveryPairAttached ==
    [][\A r \in RefreshRecords :
          (/\ r.id \in DOMAIN state_nodes'
           /\ \E o \in create_state_entity(Graph, r) :
                 o.ok /\ Graph' = [o.g EXCEPT !.calls = <<>>]) =>
             \A i \in 1..Len(r.desc) :
                LET a == AttrId(r.id, r.desc[i][2])
                IN /\ a \in DOMAIN attribute_nodes'
                   /\ attribute_nodes'[a] = r.desc[i][2]
                   /\ \E p \in DOMAIN hasAttribute' :
                         p = <<r.id, a>> /\ hasAttribute'[p] = r.desc[i][1]
      ]_vars

\* C19: no step deletes an Attribute node or a state-to-attribute edge, or
\* changes the key an edge carries.
C19_AttributesAppendOnly ==
    [][/\ \A a \in DOMAIN attribute_nodes : a \in DOMAIN attribute_nodes'
       /\ \A p \in DOMAIN hasAttribute :
             p \in DOMAIN hasAttribute' /\ hasAttribute'[p] = hasAttribute[p]
      ]_vars


\* the chain reader's list for e has the states of e's top-level chain, in
\* ascending order of start with the unknown starts last, rows of equal start
\* in ascending order of depth
ReadsTopChain(e, s) ==
    /\ {s[i].state_id : i \in 1..Len(s)} = TopChain(e)
    /\ \A i, j \in 1..Len(s) :
          i < j =>
             LET a == Period(s[i].state_id).start
                 b == Period(s[j].state_id).start
             IN /\ Known(b) => Known(a) /\ a <= b
                /\ a = b => s[i].depth <= s[j].depth

\* C35: for an entity with a has-head edge the chain reader returns exactly
\* the head and the states its tagged next edges reach from the head (no
\* state reached only by a contains edge or by a next edge without the
\* entity's tag), sorted by start with unknown starts last and ties in order
\* of distance from the head.
C35_ChainReaderReturnsTopChainInOrder ==
    \A e \in EntityIds :
        Heads(e) # {} =>
           /\ get_entity_state_chain(Graph, e) # {}
           /\ \A s \in get_entity_state_chain(Graph, e) : ReadsTopChain(e, s)

\* the list of A has two states of equal sort key at different depths, and a
\* state of A below a contains edge is left out of it
C35_Witness ==
    /\ \E s \in get_entity_state_chain(Graph, "A") :
          \E i, j \in 1..Len(s) :
             /\ i < j /\ s[i].depth < s[j].depth
             /\ Period(s[i].state_id).start = Period(s[j].state_id).start
    /\ Visited("A") \ TopChain("A") # {}


\* what e's edges reach in g from the contains-children of c
BelowIn(g, e, c) ==
    LET step(s) == TaggedOut(g.nx, s, e) \cup TaggedOut(g.ct, s, e)
    IN Closure(TaggedOut(g.ct, c, e), step, MaxStates)

\* the positions (cursor, previous state) the walk of e's chain can be at
Cursors(e) ==
    {<<f, None>> : f \in Heads(e)} \cup
    {<<c, p>> \in Visited(e) \X Visited(e) : c \in NextOf(e, p) \cup ChildOf(e, p)}

\* the records of a state of A alone that is not stored yet
NewRecordsOne ==
    {r \in StateRecords(MaxStates, MaxTime, {<<"A">>}, NoDesc) :
        r.id \notin DOMAIN state_nodes}

\* C36: a new state N whose interval, with both bounds known, equals the
\* interval of the cursor C is placed below C (C's contains-child or further
\* down C's child chain) whenever the walk ends: no contains edge N -> C is
\* made, the edges into C stay, and no has-head edge moves.
C36_EqualIntervalGoesBelow ==
    \A r \in NewRecordsOne : \A e \in EntityIds : \A f \in Heads(e) :
      \A pos \in Cursors(e) :
        LET new == parse_time_range(r.time)
            c == pos[1]
            g == upsert_state(Graph, r)
        IN (/\ r.members = <<e>>
            /\ Known(new.start) /\ Known(new.end)
            /\ Period(c).start = new.start /\ Period(c).end = new.end) =>
               \A o \in Walk(g, e, r.id, new, f, c, pos[2], MaxStates + 1) :
                  o.ok =>
                     /\ o.g.hs = hasState
                     /\ ~Tagged(o.g.ct, r.id, c, e)
                     /\ ~Tagged(o.g.nx, r.id, c, e)
                     /\ r.id \in BelowIn(o.g, e, c)
                     /\ \A x \in DOMAIN state_nodes :
                           /\ Tagged(contain, x, c, e) => Tagged(o.g.ct, x, c, e)
                           /\ Tagged(nextState, x, c, e) => Tagged(o.g.nx, x, c, e)

\* every state that lists e has both bounds known
AllBounds(e) == \A s \in MemberStates(e) : HasBounds(s)

\* the states e's has-head edges point to start no later than any state that
\* lists e
HeadFirst(e) ==
    \A h \in Heads(e) : \A s \in MemberStates(e) :
        Period(h).start <= Period(s).start

\* C37: when every state that lists E has both bounds known, then after every
\* insertion of a new state the state E's has-head edge points to starts no
\* later than any state that lists E.
C37_HeadStartsFirst ==
    [][\A e \in EntityIds :
          (NewStates # {} /\ AllBounds(e)') => HeadFirst(e)'
      ]_vars

\* C37, for store calls that leave the stored states' records as they are: when
\* every state that lists E has both bounds known and is reached from E's
\* has-head edge, and E's head starts no later than any of them, the head
\* starts no later than any state that lists E after a store call that
\* inserts a new state or stores a state again with the time and the member
\* list it has.
C37_HeadStartsFirstWithoutRetiming ==
    [][\A e \in EntityIds :
          (/\ AllBounds(e) /\ HeadFirst(e)
           /\ MemberStates(e) \subseteq Visited(e)
           /\ AllBounds(e)'
           /\ \A s \in DOMAIN state_nodes : state_nodes'[s] = state_nodes[s]) =>
              HeadFirst(e)'
      ]_vars

\* the has-head edge of A was moved to the newest state, which starts before
\* a state stored earlier
C37_Witness ==
    /\ last = "new" /\ Newest >= 2
    /\ AllBounds("A")
    /\ Heads("A") = {Newest}
    /\ \E s \in MemberStates("A") : Period(Newest).start < Period(s).start


\* C38: when every stored state lists both A and B, the has-head edges of A
\* and B point to the same states and every next or contains edge carries A's
\* tag exactly when it carries B's.
C38_SameMembersSameChains ==
    (\A s \in DOMAIN state_nodes :
        InTags("A", state_nodes[s].entity_ids) /\ InTags("B", state_nodes[s].entity_ids)) =>
       /\ Heads("A") = Heads("B")
       /\ \A a, b \in DOMAIN state_nodes :
             /\ Tagged(nextState, a, b, "A") <=> Tagged(nextState, a, b, "B")
             /\ Tagged(contain, a, b, "A") <=> Tagged(contain, a, b, "B")


\* the store before anything was stored
EmptyGraph ==
    [ent |-> {}, st |-> <<>>, hs |-> {}, nx |-> <<>>, ct |-> <<>>, at |-> <<>>,
     ha |-> <<>>, hr |-> EmptyBag, calls |-> <<>>]

\* the outcomes of storing the records recs, each by a store call of its own,
\* one after the other from the graphs outs; a call that fails ends it
RECURSIVE StoreAll(_, _)
StoreAll(outs, recs) ==
    IF recs = <<>> THEN outs
    ELSE StoreAll(UNION {IF o.ok THEN create_state_entity(o.g, Head(recs)) ELSE {o} :
                         o \in outs},
                  Tail(recs))

\* the orders the stored states can be submitted in
Orders == {p \in [1..Len(state_nodes) -> DOMAIN state_nodes] :
             \A i, j \in 1..Len(state_nodes) : i # j => p[i] # p[j]}

\* the pairs of states joined by an edge of rel that carries e's tag
EdgesOf(rel, e) == {p \in DOMAIN rel : InTags(e, rel[p])}

\* the stored states are states of A alone with known, pairwise different
\* periods of which every two are nested or disjoint
LaminarFamily ==
    /\ \A s \in DOMAIN state_nodes :
          state_nodes[s].entity_ids = <<"A">> /\ HasBounds(s)
    /\ \A a, b \in DOMAIN state_nodes :
          a # b =>
             /\ Period(a) # Period(b)
             /\ \/ PeriodContains(Period(a), Period(b))
                \/ PeriodContains(Period(b), Period(a))
                \/ Period(a).end < Period(b).start
                \/ Period(b).end < Period(a).start

\* C39: for a laminar family of states of one entity, stored one per store
\* call, the has-head, next and contains edges that result are the same for
\* every order of the calls: storing the stored states in any order into the
\* empty store ends with the edges the store has.
C39_OrderIndependent ==
    (LaminarFamily /\ ~hung) =>
       \A p \in Orders :
          \A o \in StoreAll(Returns(EmptyGraph), [i \in 1..Len(p) |-> StoredRecord(p[i])]) :
             /\ o.ok
             /\ HeadsOf(o.g, "A") = Heads("A")
             /\ EdgesOf(o.g.nx, "A") = EdgesOf(nextState, "A")
             /\ EdgesOf(o.g.ct, "A") = EdgesOf(contain, "A")


\* the relation names a state that is not stored
StateMissing(rel) == ~({rel.subject, rel.object} \subseteq DOMAIN state_nodes)

\* C40: the pass of store_state_relations for a relation whose subject or
\* object state is not stored creates no node and no edge and raises nothing,
\* and the loop goes on to the relation after it.
C40_MissingStateRelationSkipped ==
    [][(/\ call.pc = "relations" /\ call.todo # <<>>
        /\ last' = "relation"
        /\ StateMissing(Head(call.todo))) =>
           /\ UNCHANGED <<entity_nodes, state_nodes, attribute_nodes, hasState,
                          nextState, contain, hasAttribute, hasRelation>>
           /\ raised' = NoError /\ ~hung'
           /\ call'.pc = "relations" /\ call'.todo = Tail(call.todo)
      ]_vars

\* a relation with a missing state was passed over and the relation after it
\* was stored
C40_Witness ==
    /\ last = "relation" /\ Len(call.log) >= 2
    /\ LET skipped == call.log[Len(call.log) - 1]
           stored == call.log[Len(call.log)]
       IN /\ skipped.kind = "relation" /\ StateMissing(skipped.rec)
          /\ stored.kind = "relation" /\ BagIn(stored.rec, hasRelation)
          /\ ~BagIn(skipped.rec, hasRelation)

=============================================================================
